---- MODULE Spec2Model ----
(***************************************************************************)
(* Model of scripts/vocabs_csv2jsonl/vocabs_csv2jsonl.py: the vocabulary   *)
(* CSV -> JSON/JSONL converter.                                            *)
(*                                                                         *)
(* A Python str is a sequence of one-character strings.  A Python dict is  *)
(* a sequence of <<key, value>> pairs with distinct keys, in insertion     *)
(* order.  A CSV line is the sequence of its cells (what csv.reader yields *)
(* for it); the text of the line is its cells joined by commas.            *)
(***************************************************************************)
EXTENDS Integers, Sequences, FiniteSets, TLC

VARIABLES
    \* ---- main(): one run of the script
    remote_base,   \* TRUE when a remote base URL is in use (no --local)
    format,        \* args.format
    pc,            \* position of main inside the loop over VOCABS
    idx,           \* index in VOCABS of the vocabulary being processed
    local_csv,     \* the local CSV of the current vocabulary, once main has looked for it
    remoteResult,  \* how the remote attempt of the current vocabulary ended
    count,         \* main's variable count
    total,         \* main's variable total
    reported,      \* the "<name>: <count> entries" lines printed so far
    printedTotal,  \* the "Done. Total entries" line, NotPrinted before
    dest,          \* destination files written in this run, by vocabulary
    localCalls,    \* convert_vocab calls on the local file in the current step
    lastCall,      \* what the latest convert_vocab call of the current step returned and wrote
    exitStatus,    \* process exit status, Running before exit
    \* ---- slug_label_from_uri applied to a string
    suri, slabel,
    \* ---- normalize_vocab_entry applied to a row
    nname, nrow, nres,
    \* ---- _parse_csv_lines followed by normalize_vocab_entry on a table
    pname, plines, prows, pres, ppc

mainVars  == <<remote_base, format, pc, idx, local_csv, remoteResult, count,
               total, reported, printedTotal, dest, localCalls, lastCall,
               exitStatus>>
slugVars  == <<suri, slabel>>
normVars  == <<nname, nrow, nres>>
parseVars == <<pname, plines, prows, pres, ppc>>
otherVars == <<slugVars, normVars, parseVars>>
vars      == <<mainVars, otherVars>>

----------------------------------------------------------------------------
(* Bounds *)
MaxUriLen == 4     \* longest string given to slug_label_from_uri
MaxCols   == 3     \* most columns in a row given to normalize_vocab_entry
MaxFields == 3     \* most cells in a header line or data line of a parsed table

----------------------------------------------------------------------------
(* Python str primitives *)

NoneVal == <<"None">>      \* Python None (no str is a one-element sequence holding "None")
Empty   == <<>>            \* ""

Max(a, b) == IF a >= b THEN a ELSE b

IsSpace(c) == c = " "

RECURSIVE lstrip(_)
lstrip(s) == IF s # <<>> /\ IsSpace(s[1]) THEN lstrip(Tail(s)) ELSE s

RECURSIVE rstrip_chars(_, _)
rstrip_chars(s, cs) ==
    IF s # <<>> /\ s[Len(s)] \in cs
    THEN rstrip_chars(SubSeq(s, 1, Len(s) - 1), cs)
    ELSE s

\* str.strip()
strip(s) == rstrip_chars(lstrip(s), {" "})

\* str.replace(a, b) for one-character a and b
replace(s, a, b) == [i \in 1..Len(s) |-> IF s[i] = a THEN b ELSE s[i]]

\* s.split(c)[-1]: what follows the last c, the whole of s when there is none
RECURSIVE split_last(_, _)
split_last(s, c) ==
    IF s = <<>> THEN <<>>
    ELSE IF s[Len(s)] = c THEN <<>>
    ELSE Append(split_last(SubSeq(s, 1, Len(s) - 1), c), s[Len(s)])

LowerChar(c) ==
    CASE c = "U" -> "u" [] c = "R" -> "r" [] c = "I" -> "i"
      [] c = "C" -> "c" [] c = "O" -> "o" [] c = "D" -> "d" [] c = "E" -> "e"
      [] OTHER -> c

\* str.lower()
lower(s) == [i \in 1..Len(s) |-> LowerChar(s[i])]

\* "://" in s
HasScheme(s) ==
    \E i \in 1..(Len(s) - 2) : s[i] = ":" /\ s[i+1] = "/" /\ s[i+2] = "/"

\* Python truth of a str-or-None value
Truthy(v) == v # NoneVal /\ v # <<>>

----------------------------------------------------------------------------
(* slug_label_from_uri *)

slug_label_from_uri_rstrip(uri) ==
    IF ~Truthy(uri) THEN <<>>
    ELSE LET u    == rstrip_chars(strip(uri), {"/"})
             last == split_last(split_last(u, "/"), "#")
         IN  strip(replace(replace(last, "_", " "), "-", " "))

slug_label_from_uri(uri) ==
    IF ~Truthy(uri) THEN <<>>
    ELSE LET u    == rstrip_chars(strip(uri), {"/", "#"})
             last == split_last(split_last(u, "/"), "#")
         IN  strip(replace(replace(last, "_", " "), "-", " "))

----------------------------------------------------------------------------
(* Python dict: a sequence of <<key, value>> pairs, distinct keys *)

\* d[k] = v
dict_put(d, k, v) ==
    IF \E i \in 1..Len(d) : d[i][1] = k
    THEN [i \in 1..Len(d) |-> IF d[i][1] = k THEN <<k, v>> ELSE d[i]]
    ELSE Append(d, <<k, v>>)

\* d.get(k, default)
dict_get(d, k, default) ==
    IF \E i \in 1..Len(d) : d[i][1] = k
    THEN (CHOOSE p \in {d[i] : i \in 1..Len(d)} : p[1] = k)[2]
    ELSE default

\* a or b or c
Or3(a, b, c) == IF Truthy(a) THEN a ELSE IF Truthy(b) THEN b ELSE c

\* Column names and JSON field names the code spells out
K_uri            == <<"u","r","i">>
K_url            == <<"u","r","l">>
K_col0           == <<"c","o","l","0">>
K_col1           == <<"c","o","l","1">>
K_col2           == <<"c","o","l","2">>
K_label          == <<"l","a","b","e","l">>
K_name           == <<"n","a","m","e">>
K_equivalent_uri == <<"e","q","u","i","v","a","l","e","n","t","_","u","r","i">>
K_equivalent     == <<"e","q","u","i","v","a","l","e","n","t">>
K_authority_uri  == <<"a","u","t","h","o","r","i","t","y","_","u","r","i">>
K_authority      == <<"a","u","t","h","o","r","i","t","y">>
K_code           == <<"c","o","d","e">>
K_id             == <<"i","d">>
K_license_url    == <<"l","i","c","e","n","s","e","_","u","r","l">>
Unknown          == <<"U","n","k","n","o","w","n">>

\* The value csv.DictReader stores under its restkey: the list of surplus
\* cells.  The code never gets to read its content.
ListVal == <<"List">>

NoEntry == [f \in {} |-> <<>>]
Returned(e) == [ret |-> "entry", entry |-> e]
ReturnedNone == [ret |-> "None", entry |-> NoEntry]
Raised == [ret |-> "raise", entry |-> NoEntry]

\* {k.lower().strip(): (v.strip() if v else "") for k, v in row.items()}
RECURSIVE lowered_keys(_)
lowered_keys(row) ==
    IF row = <<>> THEN <<>>
    ELSE LET n == Len(row)
             k == row[n][1]
             v == row[n][2]
         IN  dict_put(lowered_keys(SubSeq(row, 1, n - 1)),
                      strip(lower(k)),
                      IF Truthy(v) THEN strip(v) ELSE Empty)

\* None.lower() and [..].strip() raise AttributeError
comprehension_raises(row) ==
    \E i \in 1..Len(row) : row[i][1] = NoneVal \/ row[i][2] = ListVal

licenses_entry_url_first(keys) ==
    LET authority == Or3(dict_get(keys, K_authority_uri, NoneVal),
                         dict_get(keys, K_authority, NoneVal),
                         dict_get(keys, K_col0, Empty))
        code      == Or3(dict_get(keys, K_code, NoneVal),
                         dict_get(keys, K_id, NoneVal),
                         dict_get(keys, K_col1, Empty))
        url       == Or3(dict_get(keys, K_url, NoneVal),
                         dict_get(keys, K_license_url, NoneVal),
                         dict_get(keys, K_col2, Empty))
        fields    == {"label"}
                       \cup (IF Truthy(authority) THEN {"uri"} ELSE {})
                       \cup (IF Truthy(code) THEN {"code"} ELSE {})
                       \cup (IF Truthy(url) THEN {"url"} ELSE {})
        label     == Or3(code,
                         slug_label_from_uri(IF Truthy(url) THEN url ELSE authority),
                         Unknown)
    IN  IF ~(Truthy(url) \/ Truthy(code) \/ Truthy(authority))
        THEN ReturnedNone
        ELSE Returned([f \in fields |->
                 CASE f = "uri"  -> authority
                   [] f = "code" -> code
                   [] f = "url"  -> url
                   [] OTHER      -> label])

licenses_entry(keys) ==
    LET authority == Or3(dict_get(keys, K_authority_uri, NoneVal),
                         dict_get(keys, K_authority, NoneVal),
                         dict_get(keys, K_col0, Empty))
        code      == Or3(dict_get(keys, K_code, NoneVal),
                         dict_get(keys, K_id, NoneVal),
                         dict_get(keys, K_col1, Empty))
        url       == Or3(dict_get(keys, K_url, NoneVal),
                         dict_get(keys, K_license_url, NoneVal),
                         dict_get(keys, K_col2, Empty))
        fields    == {"label"}
                       \cup (IF Truthy(authority) THEN {"uri"} ELSE {})
                       \cup (IF Truthy(code) THEN {"code"} ELSE {})
                       \cup (IF Truthy(url) THEN {"url"} ELSE {})
        label     == Or3(code,
                         slug_label_from_uri(IF Truthy(authority) THEN authority ELSE url),
                         Unknown)
    IN  IF ~(Truthy(url) \/ Truthy(code) \/ Truthy(authority))
        THEN ReturnedNone
        ELSE Returned([f \in fields |->
                 CASE f = "uri"  -> authority
                   [] f = "code" -> code
                   [] f = "url"  -> url
                   [] OTHER      -> label])

uri_label_entry_url_first(keys) ==
    LET uri   == Or3(dict_get(keys, K_url, NoneVal),
                     dict_get(keys, K_uri, NoneVal),
                     dict_get(keys, K_col0, Empty))
        label == Or3(dict_get(keys, K_label, NoneVal),
                     dict_get(keys, K_name, NoneVal),
                     dict_get(keys, K_col1, Empty))
        equiv == Or3(dict_get(keys, K_equivalent_uri, NoneVal),
                     dict_get(keys, K_equivalent, NoneVal),
                     dict_get(keys, K_col2, Empty))
        fields == {"uri", "label"}
                    \cup (IF Truthy(equiv) THEN {"equivalentUri"} ELSE {})
    IN  IF ~Truthy(uri)
        THEN ReturnedNone
        ELSE Returned([f \in fields |->
                 CASE f = "uri"   -> uri
                   [] f = "label" -> IF Truthy(label) THEN label
                                     ELSE slug_label_from_uri(uri)
                   [] OTHER       -> equiv])

uri_label_entry(keys) ==
    LET uri   == Or3(dict_get(keys, K_uri, NoneVal),
                     dict_get(keys, K_url, NoneVal),
                     dict_get(keys, K_col0, Empty))
        label == Or3(dict_get(keys, K_label, NoneVal),
                     dict_get(keys, K_name, NoneVal),
                     dict_get(keys, K_col1, Empty))
        equiv == Or3(dict_get(keys, K_equivalent_uri, NoneVal),
                     dict_get(keys, K_equivalent, NoneVal),
                     dict_get(keys, K_col2, Empty))
        fields == {"uri", "label"}
                    \cup (IF Truthy(equiv) THEN {"equivalentUri"} ELSE {})
    IN  IF ~Truthy(uri)
        THEN ReturnedNone
        ELSE Returned([f \in fields |->
                 CASE f = "uri"   -> uri
                   [] f = "label" -> IF Truthy(label) THEN label
                                     ELSE slug_label_from_uri(uri)
                   [] OTHER       -> equiv])

normalize_vocab_entry(vocab_name, row) ==
    IF comprehension_raises(row) THEN Raised
    ELSE IF vocab_name = "licenses"
         THEN licenses_entry(lowered_keys(row))
         ELSE uri_label_entry(lowered_keys(row))

----------------------------------------------------------------------------
(* Line Filter and _parse_csv_lines.  A line is the sequence of its cells. *)

\* line.lstrip().startswith("#")
IsCommentLine(line) ==
    /\ line # <<>>
    /\ LET c == lstrip(line[1]) IN c # <<>> /\ c[1] = "#"

\* not line.strip()
IsBlankLine(line) ==
    \/ line = <<>>
    \/ Len(line) = 1 /\ strip(line[1]) = <<>>

\* the loop shared by read_csv_rows_from_path and read_csv_rows_from_url
RECURSIVE filter_lines(_)
filter_lines(text) ==
    IF text = <<>> THEN <<>>
    ELSE LET line == text[Len(text)]
             rest == filter_lines(SubSeq(text, 1, Len(text) - 1))
         IN  IF IsCommentLine(line) \/ IsBlankLine(line)
             THEN rest ELSE Append(rest, line)

Digit(i) == CASE i = 0 -> "0" [] i = 1 -> "1" [] i = 2 -> "2" [] i = 3 -> "3"
              [] i = 4 -> "4" [] i = 5 -> "5" [] i = 6 -> "6" [] i = 7 -> "7"
              [] i = 8 -> "8" [] OTHER -> "9"

\* f"col{i}"
ColName(i) == <<"c", "o", "l", Digit(i)>>

\* dict(zip(names, cells))
RECURSIVE dict_zip(_, _)
dict_zip(names, cells) ==
    LET n == IF Len(names) <= Len(cells) THEN Len(names) ELSE Len(cells)
    IN  IF n = 0 THEN <<>>
        ELSE dict_put(dict_zip(SubSeq(names, 1, n - 1), SubSeq(cells, 1, n - 1)),
                      names[n], cells[n])

\* d[key] = restval for key in fieldnames[lr:]
RECURSIVE fill_restval(_, _, _)
fill_restval(d, fieldnames, lr) ==
    IF lr >= Len(fieldnames) THEN d
    ELSE fill_restval(dict_put(d, fieldnames[lr + 1], NoneVal), fieldnames, lr + 1)

\* One row of csv.DictReader (restkey=None, restval=None)
DictReaderRow(fieldnames, r) ==
    LET d  == dict_zip(fieldnames, r)
        lf == Len(fieldnames)
        lr == Len(r)
    IN  IF lf < lr THEN dict_put(d, NoneVal, ListVal)
        ELSE IF lf > lr THEN fill_restval(d, fieldnames, lr)
        ELSE d

\* list(csv.DictReader(lines)): the first line gives the field names, empty
\* rows are skipped
RECURSIVE DictReaderRows(_, _)
DictReaderRows(fieldnames, data) ==
    IF data = <<>> THEN <<>>
    ELSE LET r    == data[Len(data)]
             rest == DictReaderRows(fieldnames, SubSeq(data, 1, Len(data) - 1))
         IN  IF r = <<>> THEN rest
             ELSE Append(rest, DictReaderRow(fieldnames, r))

RECURSIVE MaxLen(_)
MaxLen(rows) ==
    IF rows = <<>> THEN 0
    ELSE Max(Len(rows[1]), MaxLen(Tail(rows)))

LineHasScheme(line) == \E i \in 1..Len(line) : HasScheme(line[i])

_parse_csv_lines(lines) ==
    IF lines = <<>> THEN <<>>
    ELSE IF ~LineHasScheme(lines[1])
    THEN DictReaderRows(lines[1], Tail(lines))
    ELSE LET max_len == MaxLen(lines)
             headers == [i \in 1..max_len |-> ColName(i - 1)]
         IN  [j \in 1..Len(lines) |->
                 dict_zip(headers,
                          lines[j] \o [i \in 1..(max_len - Len(lines[j])) |-> Empty])]

----------------------------------------------------------------------------
(* Reading the rows of a source *)

\* the text of an existing local file, as its lines
read_csv_rows_from_path(text) == _parse_csv_lines(filter_lines(text))

----------------------------------------------------------------------------
(* Specification SpecSlug: slug_label_from_uri on every string over        *)
(* SlugChars of length up to MaxUriLen.                                    *)

SlugChars == {"a", "/", "#", "_", "-", " "}

MainIdle ==
    /\ remote_base = FALSE /\ format = "jsonl" /\ pc = "idle" /\ idx = 0
    /\ local_csv = <<>> /\ remoteResult = "none" /\ count = 0 /\ total = 0
    /\ reported = <<>> /\ printedTotal = -1 /\ dest = <<>>
    /\ localCalls = 0 /\ lastCall = <<>> /\ exitStatus = -1
SlugIdle  == suri = <<>> /\ slabel = <<>>
NormIdle  == nname = "" /\ nrow = <<>> /\ nres = ReturnedNone
ParseIdle == pname = "" /\ plines = <<>> /\ prows = <<>> /\ pres = <<>> /\ ppc = "idle"

InitSlug ==
    /\ suri = <<>>
    /\ slabel = slug_label_from_uri(<<>>)
    /\ MainIdle /\ NormIdle /\ ParseIdle

SlugAppend ==
    /\ Len(suri) < MaxUriLen
    /\ \E c \in SlugChars : suri' = Append(suri, c)
    /\ slabel' = slug_label_from_uri(suri')
    /\ UNCHANGED <<mainVars, normVars, parseVars>>

NextSlug == SlugAppend
SpecSlug == InitSlug /\ [][NextSlug]_vars

----------------------------------------------------------------------------
(* C9: URI-tail label derivation *)

SetMax(S) == CHOOSE m \in S : \A x \in S : x <= m

\* position of the later of the last "/" and the last "#", 0 when neither occurs
LastSeparator(u) == SetMax({0} \cup {i \in 1..Len(u) : u[i] \in {"/", "#"}})

AfterLastSeparator(u) == SubSeq(u, LastSeparator(u) + 1, Len(u))

SpacedAndTrimmed(s) ==
    strip([i \in 1..Len(s) |-> IF s[i] \in {"_", "-"} THEN " " ELSE s[i]])

\* strip a trailing "/" or "#"
StripOneTrailing(s) ==
    IF s # <<>> /\ s[Len(s)] \in {"/", "#"} THEN SubSeq(s, 1, Len(s) - 1) ELSE s

\* strip surrounding whitespace, then every trailing "/" and "#"
RECURSIVE StripTrailingRun(_)
StripTrailingRun(s) ==
    IF s # <<>> /\ s[Len(s)] \in {"/", "#"}
    THEN StripTrailingRun(SubSeq(s, 1, Len(s) - 1))
    ELSE s

\* C9 as stated: the label of every URI is what follows the later of the last
\* "/" and the last "#" once ONE trailing "/" or "#" is stripped, with "_" and
\* "-" turned into spaces and the result trimmed.
C9_AsStated ==
    slabel = SpacedAndTrimmed(AfterLastSeparator(StripOneTrailing(suri)))

\* C9 amended: the label of every URI is what follows the later of the last
\* "/" and the last "#" once surrounding whitespace and then the whole
\* trailing run of "/" and "#" characters are stripped, with "_" and "-"
\* turned into spaces and the result trimmed; this covers the URIs in which a
\* "#" occurs before the last "/".
C9_SlugIsTailAfterLaterSeparator ==
    slabel = SpacedAndTrimmed(AfterLastSeparator(StripTrailingRun(strip(suri))))

\* a URI with a "#" before its last "/", a trailing "#" and a non-empty label
C9_Witness ==
    /\ \E i \in 1..Len(suri) : \E j \in (i+1)..Len(suri) :
          /\ suri[i] = "#" /\ suri[j] = "/"
          /\ \A k \in (j+1)..Len(suri) : suri[k] # "/"
    /\ suri # <<>> /\ suri[Len(suri)] = "#"
    /\ slabel # <<>>

----------------------------------------------------------------------------
(* Specification SpecNorm: normalize_vocab_entry on rows of up to MaxCols  *)
(* columns, built one column at a time.                                    *)

VOCABS == <<"access_rights", "file_types", "licenses", "machine_readable",
            "media_types", "non_proprietary">>

VocabType(name) == IF name = "licenses" THEN "licenses" ELSE "uri_label"

K_URI_padded  == <<" ", "U", "R", "I">>
K_CODE_padded == <<"C", "O", "D", "E", " ">>

V_slash   == <<" ", "/">>
V_a_b     == <<"a", "_", "b">>

NormNames == {"licenses", "file_types"}

NormColumnNames(name) ==
    IF name = "licenses"
    THEN {K_authority_uri, K_authority, K_col0, K_code, K_CODE_padded, K_id,
          K_col1, K_url, K_license_url, K_col2}
    ELSE {K_uri, K_URI_padded, K_url, K_col0, K_label, K_name, K_col1,
          K_equivalent_uri, K_equivalent, K_col2}

NormCells == {Empty, V_slash, V_a_b}

InitNorm ==
    /\ nname \in NormNames
    /\ nrow = <<>>
    /\ nres = normalize_vocab_entry(nname, <<>>)
    /\ MainIdle /\ SlugIdle /\ ParseIdle

NormAddColumn ==
    /\ Len(nrow) < MaxCols
    /\ \E k \in NormColumnNames(nname) : \E v \in NormCells :
          /\ \A i \in 1..Len(nrow) : nrow[i][1] # k
          /\ nrow' = Append(nrow, <<k, v>>)
    /\ nres' = normalize_vocab_entry(nname, nrow')
    /\ UNCHANGED <<nname, mainVars, slugVars, parseVars>>

NextNorm == NormAddColumn
SpecNorm == InitNorm /\ [][NextNorm]_vars

----------------------------------------------------------------------------
(* C4, C7, C8: what normalize_vocab_entry returns *)

\* The value a row gives a candidate key: the cell, trimmed, of the column
\* whose name is the key up to case and surrounding whitespace (the last such
\* column when several are), "" when there is none or the cell is missing.
CandidateValue(row, key) ==
    LET matching == {i \in 1..Len(row) : strip(lower(row[i][1])) = key}
    IN  IF matching = {} THEN Empty
        ELSE LET v == row[SetMax(matching)][2]
             IN  IF v = NoneVal THEN Empty ELSE strip(v)

\* first non-empty value among the candidate keys, in priority order
RECURSIVE FirstNonEmpty(_, _)
FirstNonEmpty(row, candidates) ==
    IF candidates = <<>> THEN Empty
    ELSE IF CandidateValue(row, candidates[1]) # Empty
         THEN CandidateValue(row, candidates[1])
         ELSE FirstNonEmpty(row, Tail(candidates))

UriTail(uri) == SpacedAndTrimmed(AfterLastSeparator(StripTrailingRun(strip(uri))))

\* C4 as stated: every entry normalize_vocab_entry returns has a non-empty label.
C4_LabelNonEmpty ==
    nres.ret = "entry" => nres.entry["label"] # Empty

\* C7: for a uri_label vocabulary the entry is absent exactly when the uri
\* resolved from (uri, url, col0) is empty; otherwise uri is the resolved uri,
\* label the value resolved from (label, name, col1) or, when that is empty,
\* the URI tail, and equivalentUri is present exactly when the value resolved
\* from (equivalent_uri, equivalent, col2) is non-empty, and is that value.
C7_UriLabelEntry ==
    nname \in NormNames /\ nname # "licenses" =>
      LET uri   == FirstNonEmpty(nrow, <<K_uri, K_url, K_col0>>)
          label == FirstNonEmpty(nrow, <<K_label, K_name, K_col1>>)
          equiv == FirstNonEmpty(nrow, <<K_equivalent_uri, K_equivalent, K_col2>>)
      IN  /\ nres.ret # "raise"
          /\ nres.ret = "None" <=> uri = Empty
          /\ nres.ret = "entry" =>
               /\ nres.entry["uri"] = uri
               /\ nres.entry["label"] = (IF label # Empty THEN label ELSE UriTail(uri))
               /\ "equivalentUri" \in DOMAIN nres.entry <=> equiv # Empty
               /\ equiv # Empty => nres.entry["equivalentUri"] = equiv
               /\ DOMAIN nres.entry \subseteq {"uri", "label", "equivalentUri"}

\* the uri comes from the second candidate because the first, matched through
\* " URI", is empty; the label is derived and an equivalent is present
C7_Witness ==
    /\ nname = "file_types"
    /\ nres.ret = "entry"
    /\ \E i \in 1..Len(nrow) : nrow[i][1] = K_URI_padded /\ ~Truthy(nrow[i][2])
    /\ \E i \in 1..Len(nrow) : nrow[i][1] = K_url /\ nrow[i][2] = V_a_b
    /\ nres.entry["uri"] = V_a_b
    /\ nres.entry["label"] = <<"a", " ", "b">>
    /\ "equivalentUri" \in DOMAIN nres.entry

\* C8: for licenses the entry is absent exactly when authority, code and url
\* all resolve to empty; otherwise it has uri, code, url each exactly when its
\* source is non-empty, and label is code, else the URI tail of authority (of
\* url when authority is empty), else "Unknown".
C8_LicensesEntry ==
    nname = "licenses" =>
      LET authority == FirstNonEmpty(nrow, <<K_authority_uri, K_authority, K_col0>>)
          code      == FirstNonEmpty(nrow, <<K_code, K_id, K_col1>>)
          url       == FirstNonEmpty(nrow, <<K_url, K_license_url, K_col2>>)
          tail      == UriTail(IF authority # Empty THEN authority ELSE url)
      IN  /\ nres.ret # "raise"
          /\ nres.ret = "None" <=> (authority = Empty /\ code = Empty /\ url = Empty)
          /\ nres.ret = "entry" =>
               /\ DOMAIN nres.entry =
                    {"label"} \cup (IF authority # Empty THEN {"uri"} ELSE {})
                              \cup (IF code # Empty THEN {"code"} ELSE {})
                              \cup (IF url # Empty THEN {"url"} ELSE {})
               /\ authority # Empty => nres.entry["uri"] = authority
               /\ code # Empty => nres.entry["code"] = code
               /\ url # Empty => nres.entry["url"] = url
               /\ nres.entry["label"] =
                    (IF code # Empty THEN code
                     ELSE IF tail # Empty THEN tail ELSE Unknown)

\* a row with only a code yields exactly {code, label}, both the code
C8_Witness ==
    /\ nname = "licenses"
    /\ nrow = <<<<K_CODE_padded, V_a_b>>>>
    /\ nres = Returned([f \in {"code", "label"} |-> V_a_b])

----------------------------------------------------------------------------
(* Specification SpecParse: read_csv_rows_from_path followed by            *)
(* normalize_vocab_entry on every two-line text whose lines have up to     *)
(* MaxFields cells.                                                        *)

U_x_a == <<"x", ":", "/", "/", "a">>

ParseCells == {K_uri, K_label, U_x_a, Empty}

ParseLines == UNION {[1..n -> ParseCells] : n \in 1..MaxFields}

InitParse ==
    /\ pname \in NormNames
    /\ plines \in {<<first, second>> : first \in ParseLines, second \in ParseLines}
    /\ prows = <<>>
    /\ pres = <<>>
    /\ ppc = "lines"
    /\ MainIdle /\ SlugIdle /\ NormIdle

ParseTable ==
    /\ ppc = "lines"
    /\ prows' = read_csv_rows_from_path(plines)
    /\ ppc' = "parsed"
    /\ UNCHANGED <<pname, plines, pres, mainVars, slugVars, normVars>>

NormalizeRows ==
    /\ ppc = "parsed"
    /\ pres' = [i \in 1..Len(prows) |-> normalize_vocab_entry(pname, prows[i])]
    /\ ppc' = "normalized"
    /\ UNCHANGED <<pname, plines, prows, mainVars, slugVars, normVars>>

NextParse == ParseTable \/ NormalizeRows
SpecParse == InitParse /\ [][NextParse]_vars

\* C1 as stated: on the header path, a data row with fewer or more fields than
\* the header goes through the Row Parser and the Entry Normalizer without an
\* error.
C1_MalformedRowNeverRaises ==
    LET lines == filter_lines(plines)
    IN  (/\ ppc = "normalized"
         /\ Len(lines) = 2
         /\ ~LineHasScheme(lines[1])
         /\ Len(lines[2]) # Len(lines[1]))
        => \A i \in 1..Len(pres) : pres[i].ret # "raise"

----------------------------------------------------------------------------
(* convert_vocab.  A remote response is [status, text]: status "ok" with   *)
(* the decoded text, "URLError" when urlopen fails, "error" when reading   *)
(* or decoding the response raises anything else.  A written file is the   *)
(* sequence of the JSON values in it; <<>> stands for no file.  The        *)
(* "generated" timestamp of the envelope is left out: nothing reads it.    *)

\* ROOT, SRC, and SRC / f"{name}.csv" as path components
ROOT == <<"ROOT">>
SRC  == ROOT \o <<"docs", "vocabularies">>
LocalCsvPath(name) == SRC \o <<name>>

\* f"{remote_base}/{name}.csv"
CsvUrl(name) == <<"remote_base", name>>

\* str(Path(csv_source).relative_to(ROOT))
RelativeToRoot(path) == SubSeq(path, Len(ROOT) + 1, Len(path))

source_desc(csv_source, source_is_url) ==
    IF source_is_url THEN csv_source ELSE RelativeToRoot(csv_source)

read_csv_rows_from_url(resp) ==
    IF resp.status = "URLError" THEN [exc |-> "RuntimeError", rows |-> <<>>]
    ELSE IF resp.status # "ok" THEN [exc |-> "Exception", rows |-> <<>>]
    ELSE [exc |-> "none", rows |-> _parse_csv_lines(filter_lines(resp.text))]

\* the try block of convert_vocab
read_rows(resp, source_is_url) ==
    IF source_is_url THEN read_csv_rows_from_url(resp)
    ELSE [exc |-> "none", rows |-> read_csv_rows_from_path(resp.text)]

\* entries = [e for row in rows if (e := normalize_vocab_entry(name, row))]
RECURSIVE collect_entries(_)
collect_entries(normalized) ==
    IF normalized = <<>> THEN <<>>
    ELSE LET rest == collect_entries(SubSeq(normalized, 1, Len(normalized) - 1))
             last == normalized[Len(normalized)]
         IN  IF last.ret = "entry" THEN Append(rest, last.entry) ELSE rest

envelope_count_rows(rows, entries) == Len(rows)

\* metadata["count"] = len(entries)
envelope_count(rows, entries) == Len(entries)

\* the output file, by format
serialize(metadata, entries, output_format) ==
    IF output_format = "jsonl"
    THEN <<metadata>> \o entries
    ELSE <<[source  |-> metadata.source, format |-> metadata.format,
            type    |-> metadata.type,   name   |-> metadata.name,
            count   |-> metadata.count,  entries |-> entries]>>

ConvertRaised    == [outcome |-> "raise",  ret |-> 0, wrote |-> FALSE, file |-> <<>>]
ConvertNoRows    == [outcome |-> "return", ret |-> 0, wrote |-> FALSE, file |-> <<>>]

convert_vocab(name, csv_source, output_format, source_is_url, resp) ==
    LET read       == read_rows(resp, source_is_url)
        normalized == [i \in 1..Len(read.rows) |->
                          normalize_vocab_entry(name, read.rows[i])]
        entries    == collect_entries(normalized)
        metadata   == [source |-> source_desc(csv_source, source_is_url),
                       format |-> output_format,
                       type   |-> VocabType(name),
                       name   |-> name,
                       count  |-> envelope_count(read.rows, entries)]
    IN  IF read.exc = "RuntimeError" THEN ConvertNoRows
        ELSE IF read.exc # "none" THEN ConvertRaised
        ELSE IF \E i \in 1..Len(normalized) : normalized[i].ret = "raise"
             THEN ConvertRaised
        ELSE [outcome |-> "return", ret |-> Len(entries), wrote |-> TRUE,
              file |-> serialize(metadata, entries, output_format)]

----------------------------------------------------------------------------
(* Specification Spec: one run of main() over VOCABS.  The remote response *)
(* and the local file of a vocabulary are drawn when main asks for them.   *)

CommentLine == <<<<" ", "#">>>>
BlankLine   == <<<<" ">>>>

T_empty    == <<>>
T_comments == <<CommentLine, BlankLine>>
T_entries  == <<CommentLine, <<U_x_a, Empty>>, <<Empty, Empty>>, BlankLine>>
T_surplus  == <<<<K_uri, K_label>>, <<U_x_a, V_a_b, V_a_b>>>>

Texts == {T_empty, T_comments, T_entries, T_surplus}

RemoteResponses ==
    {[status |-> "URLError", text |-> <<>>], [status |-> "error", text |-> <<>>]}
      \cup {[status |-> "ok", text |-> t] : t \in Texts}

LocalFiles ==
    {[looked |-> TRUE, exists |-> FALSE, text |-> <<>>]}
      \cup {[looked |-> TRUE, exists |-> TRUE, text |-> t] : t \in Texts}

NoFile == <<>>
Running == -1
NotPrinted == -1

NotLookedAt == [looked |-> FALSE, exists |-> FALSE, text |-> <<>>]

\* SRC / f"{name}.csv" as main finds it: drawn the first time a step looks
\* at it, the same file for the rest of the step
LocalCsvOnDisk == IF local_csv.looked THEN {local_csv} ELSE LocalFiles
NoCall == [ret |-> 0, wrote |-> FALSE, emptySource |-> FALSE]

name == VOCABS[idx]

Init ==
    /\ remote_base \in BOOLEAN
    /\ format \in {"jsonl", "json"}
    /\ pc = "loop"
    /\ idx = 1
    /\ local_csv = NotLookedAt
    /\ remoteResult = "none"
    /\ count = 0
    /\ total = 0
    /\ reported = <<>>
    /\ printedTotal = NotPrinted
    /\ dest = [n \in {VOCABS[i] : i \in 1..Len(VOCABS)} |-> NoFile]
    /\ localCalls = 0
    /\ lastCall = NoCall
    /\ exitStatus = Running
    /\ SlugIdle /\ NormIdle /\ ParseIdle

CallRecord(r, resp) ==
    [ret |-> r.ret, wrote |-> r.wrote,
     emptySource |-> r.wrote /\ filter_lines(resp.text) = <<>>]

\* for name in VOCABS.keys(): if remote_base
NextVocab ==
    /\ pc = "loop"
    /\ idx <= Len(VOCABS)
    /\ pc' = IF remote_base THEN "remote" ELSE "local"
    /\ UNCHANGED otherVars
    /\ UNCHANGED <<remote_base, format, idx, local_csv, remoteResult, count, total,
                   reported, printedTotal, dest, localCalls, lastCall, exitStatus>>

\* lines 181-183: convert_vocab on the remote URL
RemoteAttempt ==
    /\ pc = "remote"
    /\ \E resp \in RemoteResponses :
         LET r == convert_vocab(name, CsvUrl(name), format, TRUE, resp)
         IN  /\ lastCall' = CallRecord(r, resp)
             /\ IF r.outcome = "raise"
                THEN /\ pc' = "except"
                     /\ remoteResult' = IF resp.status = "ok" THEN "AttributeError"
                                        ELSE resp.status
                     /\ UNCHANGED <<count, dest>>
                ELSE /\ count' = r.ret
                     /\ dest' = IF r.wrote THEN [dest EXCEPT ![name] = r.file] ELSE dest
                     /\ remoteResult' = IF resp.status # "ok" THEN resp.status
                                        ELSE IF r.ret = 0 THEN "zero" ELSE "ok"
                     /\ pc' = IF r.ret = 0 THEN "fallback" ELSE "report"
    /\ UNCHANGED otherVars
    /\ UNCHANGED <<remote_base, format, idx, local_csv, total, reported,
                   printedTotal, localCalls, exitStatus>>

FallbackInTry_count_dropped ==
    /\ pc = "fallback"
    /\ \E f \in LocalCsvOnDisk :
         /\ local_csv' = f
         /\ IF f.exists
            THEN LET r == convert_vocab(name, LocalCsvPath(name), format, FALSE,
                                        [status |-> "ok", text |-> f.text])
                 IN  /\ localCalls' = localCalls + 1
                     /\ lastCall' = CallRecord(r, f)
                     /\ IF r.outcome = "raise"
                        THEN pc' = "except" /\ UNCHANGED <<count, dest>>
                        ELSE /\ UNCHANGED count
                             /\ dest' = IF r.wrote THEN [dest EXCEPT ![name] = r.file]
                                        ELSE dest
                             /\ pc' = "report"
            ELSE pc' = "report" /\ UNCHANGED <<count, dest, localCalls, lastCall>>
    /\ UNCHANGED otherVars
    /\ UNCHANGED <<remote_base, format, idx, remoteResult, total,
                   reported, printedTotal, exitStatus>>

\* lines 184-187: count == 0, still inside the try
FallbackInTry ==
    /\ pc = "fallback"
    /\ \E f \in LocalCsvOnDisk :
         /\ local_csv' = f
         /\ IF f.exists
            THEN LET r == convert_vocab(name, LocalCsvPath(name), format, FALSE,
                                        [status |-> "ok", text |-> f.text])
                 IN  /\ localCalls' = localCalls + 1
                     /\ lastCall' = CallRecord(r, f)
                     /\ IF r.outcome = "raise"
                        THEN pc' = "except" /\ UNCHANGED <<count, dest>>
                        ELSE /\ count' = r.ret
                             /\ dest' = IF r.wrote THEN [dest EXCEPT ![name] = r.file]
                                        ELSE dest
                             /\ pc' = "report"
            ELSE pc' = "report" /\ UNCHANGED <<count, dest, localCalls, lastCall>>
    /\ UNCHANGED otherVars
    /\ UNCHANGED <<remote_base, format, idx, remoteResult, total,
                   reported, printedTotal, exitStatus>>

FallbackInExcept_as_url ==
    /\ pc = "except"
    /\ \E f \in LocalCsvOnDisk :
         /\ local_csv' = f
         /\ IF f.exists
            THEN LET r == convert_vocab(name, CsvUrl(name), format, TRUE,
                                        [status |-> "ok", text |-> f.text])
                 IN  /\ localCalls' = localCalls + 1
                     /\ lastCall' = CallRecord(r, f)
                     /\ IF r.outcome = "raise"
                        THEN pc' = "exited" /\ exitStatus' = 1 /\ UNCHANGED <<count, dest>>
                        ELSE /\ count' = r.ret
                             /\ dest' = IF r.wrote THEN [dest EXCEPT ![name] = r.file]
                                        ELSE dest
                             /\ pc' = "report"
                             /\ UNCHANGED exitStatus
            ELSE /\ count' = 0
                 /\ pc' = "report"
                 /\ UNCHANGED <<dest, localCalls, lastCall, exitStatus>>
    /\ UNCHANGED otherVars
    /\ UNCHANGED <<remote_base, format, idx, remoteResult, total,
                   reported, printedTotal>>

\* lines 188-195: except Exception; an exception raised here leaves main
FallbackInExcept ==
    /\ pc = "except"
    /\ \E f \in LocalCsvOnDisk :
         /\ local_csv' = f
         /\ IF f.exists
            THEN LET r == convert_vocab(name, LocalCsvPath(name), format, FALSE,
                                        [status |-> "ok", text |-> f.text])
                 IN  /\ localCalls' = localCalls + 1
                     /\ lastCall' = CallRecord(r, f)
                     /\ IF r.outcome = "raise"
                        THEN pc' = "exited" /\ exitStatus' = 1 /\ UNCHANGED <<count, dest>>
                        ELSE /\ count' = r.ret
                             /\ dest' = IF r.wrote THEN [dest EXCEPT ![name] = r.file]
                                        ELSE dest
                             /\ pc' = "report"
                             /\ UNCHANGED exitStatus
            ELSE /\ count' = 0
                 /\ pc' = "report"
                 /\ UNCHANGED <<dest, localCalls, lastCall, exitStatus>>
    /\ UNCHANGED otherVars
    /\ UNCHANGED <<remote_base, format, idx, remoteResult, total,
                   reported, printedTotal>>

\* lines 196-202: local-only mode; nothing catches what convert_vocab raises
LocalOnly ==
    /\ pc = "local"
    /\ \E f \in LocalCsvOnDisk :
         /\ local_csv' = f
         /\ IF ~f.exists
            THEN /\ count' = 0
                 /\ pc' = "report"
                 /\ UNCHANGED <<dest, localCalls, lastCall, exitStatus>>
            ELSE LET r == convert_vocab(name, LocalCsvPath(name), format, FALSE,
                                        [status |-> "ok", text |-> f.text])
                 IN  /\ localCalls' = localCalls + 1
                     /\ lastCall' = CallRecord(r, f)
                     /\ IF r.outcome = "raise"
                        THEN pc' = "exited" /\ exitStatus' = 1 /\ UNCHANGED <<count, dest>>
                        ELSE /\ count' = r.ret
                             /\ dest' = IF r.wrote THEN [dest EXCEPT ![name] = r.file]
                                        ELSE dest
                             /\ pc' = "report"
                             /\ UNCHANGED exitStatus
    /\ UNCHANGED otherVars
    /\ UNCHANGED <<remote_base, format, idx, remoteResult, total,
                   reported, printedTotal>>

\* lines 204-205: print the count, total += count; the step's local_csv and
\* the record of its calls end with the iteration
Report ==
    /\ pc = "report"
    /\ reported' = Append(reported, <<name, count>>)
    /\ total' = total + count
    /\ idx' = idx + 1
    /\ pc' = "loop"
    /\ local_csv' = NotLookedAt
    /\ remoteResult' = "none"
    /\ localCalls' = 0
    /\ lastCall' = NoCall
    /\ UNCHANGED otherVars
    /\ UNCHANGED <<remote_base, format, count, printedTotal, dest, exitStatus>>

\* line 207 and the return of main
PrintTotal ==
    /\ pc = "loop"
    /\ idx > Len(VOCABS)
    /\ printedTotal' = total
    /\ pc' = "exited"
    /\ exitStatus' = 0
    /\ UNCHANGED otherVars
    /\ UNCHANGED <<remote_base, format, idx, local_csv, remoteResult, count, total,
                   reported, dest, localCalls, lastCall>>

Next ==
    \/ NextVocab
    \/ RemoteAttempt
    \/ FallbackInTry
    \/ FallbackInExcept
    \/ LocalOnly
    \/ Report
    \/ PrintTotal

Spec == Init /\ [][Next]_vars

----------------------------------------------------------------------------
(* C2, C3, C5, C6, C10: the run of main *)

FileCount(f) == f[1].count

\* the entries serialized in a file: the lines after the envelope (jsonl) or
\* the envelope's entries array (json)
FileEntries(f) == IF "entries" \in DOMAIN f[1] THEN f[1].entries ELSE Tail(f)

CountOnDisk(n) == IF dest[n] = NoFile THEN 0 ELSE FileCount(dest[n])

\* C2 as stated: whatever fails for a vocabulary, main reports a count for each
\* of the six vocabularies, prints the total and exits with status 0.
C2_RunCompletes ==
    pc = "exited" =>
      /\ exitStatus = 0
      /\ Len(reported) = Len(VOCABS)
      /\ printedTotal = total

\* C3 as stated: in a vocabulary's step convert_vocab is called on the local
\* file at most once, and once when the remote attempt failed or gave 0 and
\* the local file exists.
C3_OneLocalAttempt ==
    /\ localCalls <= 1
    /\ (/\ pc = "report"
        /\ remote_base
        /\ remoteResult \in {"URLError", "error", "AttributeError", "zero"}
        /\ local_csv.exists)
       => localCalls = 1

\* C5: in every file written, in both formats, the envelope's count is the
\* number of entries serialized in it, and the count convert_vocab returned
\* when it wrote the file; an empty or all-comment source gives count 0 and
\* no entries.
C5_CountIsNumberSerialized ==
    /\ \A i \in 1..Len(VOCABS) :
          dest[VOCABS[i]] # NoFile =>
             /\ FileCount(dest[VOCABS[i]]) = Len(FileEntries(dest[VOCABS[i]]))
             /\ dest[VOCABS[i]][1].format = format
             /\ format = "jsonl" <=> "entries" \notin DOMAIN dest[VOCABS[i]][1]
    /\ lastCall.wrote =>
          /\ dest[name] # NoFile
          /\ FileCount(dest[name]) = lastCall.ret
    /\ lastCall.emptySource =>
          /\ FileCount(dest[name]) = 0
          /\ FileEntries(dest[name]) = <<>>

\* a json file written from a source of two rows, one of which gives no entry
C5_Witness ==
    /\ format = "json"
    /\ lastCall.wrote
    /\ local_csv.text = T_entries
    /\ lastCall.ret = 1
    /\ Len(FileEntries(dest[name])) = 1

\* C6: in remote mode, after the step of a vocabulary whose remote fetch
\* failed with a network error and whose local file exists, the destination
\* holds what converting the local file directly gives (entries, count, type,
\* name, format) with the local path as source, and that count is reported.
C6_FallbackMatchesLocalConversion ==
    (/\ pc = "report"
     /\ remote_base
     /\ remoteResult \in {"URLError", "error"}
     /\ local_csv.exists)
    => LET direct == convert_vocab(name, LocalCsvPath(name), format, FALSE,
                                   [status |-> "ok", text |-> local_csv.text])
       IN  /\ direct.outcome = "return"
           /\ dest[name] = direct.file
           /\ count = direct.ret
           /\ dest[name][1].source = <<"docs", "vocabularies", name>>
           /\ dest[name][1].name = name
           /\ dest[name][1].type = VocabType(name)
           /\ dest[name][1].format = format

\* the remote read raised, the local file has entries and was converted
C6_Witness ==
    /\ pc = "report"
    /\ remote_base
    /\ remoteResult = "error"
    /\ local_csv.exists
    /\ local_csv.text = T_entries
    /\ count = 1
    /\ Len(FileEntries(dest[name])) = 1

\* C10: when a vocabulary's step ends, the count about to be reported and
\* added to the total is the count of the file last written to its
\* destination in this run, 0 when none was written; so is every count
\* reported before.
C10_ReportedCountIsFileCount ==
    /\ pc = "report" => count = CountOnDisk(name)
    /\ \A i \in 1..Len(reported) :
          reported[i] = <<VOCABS[i], CountOnDisk(VOCABS[i])>>

\* the remote gave a file of 0 entries and the local file, with entries,
\* replaced it
C10_Witness ==
    /\ pc = "report"
    /\ remoteResult = "zero"
    /\ local_csv.exists
    /\ count = 1
    /\ dest[name][1].source = <<"docs", "vocabularies", name>>

====
